---- MODULE Spec2Model ----
(***************************************************************************)
(* Model of the ChatAGH data-collecting programs:                          *)
(*   - GraphGenerator (web_scraping/graph_generator.py and its near copy   *)
(*     web_scraping/urls_graph_generator.py): the domain-restricted        *)
(*     breadth-first crawler that builds the link graph;                   *)
(*   - Scraper (scraper.py): the per-URL pipeline that turns URLs into     *)
(*     Documents and keeps the processed / failed lists.                   *)
(***************************************************************************)
EXTENDS Integers, Sequences, FiniteSets, Bags, TLC

(***************************************************************************)
(* Bounds of the model.                                                    *)
(***************************************************************************)
MaxPagesBound == 4      \* max_pages ranges over 0..MaxPagesBound
MaxLinks == 2           \* anchors on one fetched page
MaxSeeds == 2           \* size of start_urls
MaxUrls == 2            \* length of the Scraper's input list
MaxAnchors == 3         \* anchors of a page given to the Link Extractor
MaxElems == 2           \* container elements of a page given to the Region Selector
MaxParas == 3           \* paragraphs (<p>) of that page
MaxRegionParas == 2     \* paragraphs of one region given to the Normalizer
MaxFiles == 1           \* max_files given to WebScraper.scrape

(***************************************************************************)
(* URLs.  A URL is a record of its authority (netloc), kept as the         *)
(* sequence of its dot-separated labels, and its path, kept as a sequence  *)
(* of tokens whose last token is the extension when there is one.          *)
(***************************************************************************)
EX == <<"example", "com">>
SUB == <<"sub", "example", "com">>
EVIL == <<"example", "com", "evil", "com">>

U1 == [netloc |-> EX, path |-> <<"/">>]
U2 == [netloc |-> SUB, path |-> <<"/p", ".jpg">>]
U3 == [netloc |-> EVIL, path |-> <<"/">>]
UD == [netloc |-> EX, path |-> <<"/", "doc.php">>]

URLS == {U1, U2, U3}

\* The URLs handed to the Scraper: a page, a document-redirect URL.
SCRAPE_URLS == {U1, UD}

Range(s) == {s[k] : k \in 1..Len(s)}

\* Sequences over S of length at most n.
SeqsUpTo(S, n) == UNION {[1..k -> S] : k \in 0..n}

\* A substring test in place of the suffix test: d in a.
EndsWithDot_contains(a, d) ==
    /\ Len(d) > 0
    /\ Len(a) > Len(d)
    /\ \E k \in 1..Len(a) - Len(d) + 1 : SubSeq(a, k, k + Len(d) - 1) = d

\* str.endswith on the label sequence of an authority: a.endswith("." + d).
\* The authorities of the model never end with a dot, so "." + "" matches none.
EndsWithDot(a, d) ==
    /\ Len(d) > 0
    /\ Len(a) > Len(d)
    /\ SubSeq(a, Len(a) - Len(d) + 1, Len(a)) = d

\* urlparse(url).netloc
Netloc(url) == url.netloc

\* url.endswith(ext)
EndsWith(url, ext) == url.path[Len(url.path)] = ext

extensions_to_filter == <<".jpg">>

VARIABLES
    variant,            \* "graph_generator" or "urls_graph_generator"
    seeds,              \* self.start_urls as given to the constructor
    allowed_domains,    \* self.allowed_domains
    start_urls,         \* seeds of self.start_urls not yet iterated
    max_pages,          \* self.max_pages
    visited_urls,       \* self.visited_urls (global across seeds)
    G,                  \* self.G: [nodes, edges]
    pc,                 \* "generate" (between crawls), "crawl", "returned", "scrape"
    start_url,          \* the seed of the crawl call in progress
    queue,              \* local queue of crawl
    visited,            \* local visited list of crawl
    fetched,            \* history: number of requests.get per URL in this run
    enqueued,           \* history: URLs ever put on a crawl queue in this run
    sleeps,             \* history: number of rate-limit delays paid in this crawl
    last                \* history: what the last loop iteration did

VARIABLES
    urls,               \* Scraper.urls
    i,                  \* position of scrape's for loop (1-based)
    processed_urls,     \* Scraper.processed_urls
    failed_urls,        \* Scraper.failed_urls
    documents,          \* Scraper.documents
    log                 \* history: what happened to each URL handled so far

scrapeVars == <<urls, i, processed_urls, failed_urls, documents, log>>

\* The functions without state (Domain Filter, Link Extractor, Region Selector,
\* Normalizer) are applied to an input drawn at the start.
VARIABLES
    fn,                 \* the function applied, "none" before the call
    arg,                \* its input
    res                 \* its result, NoResult before the call

pureVars == <<fn, arg, res>>

NoResult == [none |-> TRUE]

\* WebScraper (download_all_files.py); its queue and visited_urls are the
\* variables queue and visited_urls above.
VARIABLES
    base_url,           \* WebScraper.base_url
    max_files,          \* the argument of WebScraper.scrape: None, or the number n
    files_downloaded    \* the local counter of WebScraper.scrape

wsVars == <<base_url, max_files, files_downloaded>>

\* The state of WebScraper while something else runs.
WsIdle ==
    /\ base_url = [netloc |-> <<>>, path |-> <<>>]
    /\ max_files = [none |-> TRUE, n |-> 0]
    /\ files_downloaded = 0

\* The state of the functions without state while the crawler or Scraper runs.
PureIdle == fn = "none" /\ arg = NoResult /\ res = NoResult

crawlVars == <<variant, seeds, allowed_domains, start_urls, max_pages, visited_urls, G,
               pc, start_url, queue, visited, fetched, enqueued, sleeps, last>>

NoUrl == [netloc |-> <<>>, path |-> <<>>]
NoLast == [url |-> NoUrl, outcome |-> "none", links |-> <<>>]

(***************************************************************************)
(* GraphGenerator.is_allowed_domain                                        *)
(***************************************************************************)
is_allowed_domain(url, allowed) ==
    LET domain == Netloc(url)
    IN  \/ domain \in allowed
        \/ \E d \in allowed : EndsWithDot(domain, d)

\* A de-duplication that lets the last occurrence win.
RECURSIVE drop_duplicates_last(_)
drop_duplicates_last(s) ==
    IF s = <<>> THEN <<>>
    ELSE LET rest == drop_duplicates_last(Tail(s))
         IN  IF Head(s) \in Range(rest) THEN rest ELSE <<Head(s)>> \o rest

(***************************************************************************)
(* df.drop_duplicates(subset=['url']): the first occurrence wins.          *)
(***************************************************************************)
RECURSIVE drop_duplicates(_)
drop_duplicates(s) ==
    IF s = <<>> THEN <<>>
    ELSE LET init == drop_duplicates(SubSeq(s, 1, Len(s) - 1))
             x == s[Len(s)]
         IN  IF x \in Range(init) THEN init ELSE Append(init, x)

\* An add_edge that makes both ends nodes and records no edge.
add_edge_nodes_only(g, u, v) == [nodes |-> g.nodes \cup {u, v}, edges |-> g.edges]

\* G.add_edge(u, v): both ends become nodes, one edge per ordered pair.
add_edge(g, u, v) == [nodes |-> g.nodes \cup {u, v}, edges |-> g.edges \cup {<<u, v>>}]

\* G.add_node(u)
add_node(g, u) == [nodes |-> g.nodes \cup {u}, edges |-> g.edges]

(***************************************************************************)
(* The body of "for link in links_df['url']" for one link, in the two      *)
(* versions of crawl.  st = [q, g]: the queue and the graph so far.        *)
(***************************************************************************)
\* The link loop without the Domain Filter: every unvisited link is queued.
link_body_no_filter(st, cur, link, vis, gvis, allowed) ==
    [q |-> IF link \notin Range(vis) /\ link \notin gvis
           THEN Append(st.q, link) ELSE st.q,
     g |-> add_edge(st.g, cur, link)]

link_body_all_edges(st, cur, link, vis, gvis, allowed) ==
    LET g1 == add_edge(st.g, cur, link)
    IN  IF is_allowed_domain(link, allowed)
        THEN [q |-> IF link \notin Range(vis) /\ link \notin gvis
                    THEN Append(st.q, link) ELSE st.q,
              g |-> g1]
        ELSE [q |-> st.q,
              g |-> IF link \notin g1.nodes THEN add_node(g1, link) ELSE g1]

link_body_allowed_edges(st, cur, link, vis, gvis, allowed) ==
    IF is_allowed_domain(link, allowed)
    THEN [q |-> IF link \notin Range(vis) /\ link \notin gvis
                THEN Append(st.q, link) ELSE st.q,
          g |-> add_edge(st.g, cur, link)]
    ELSE st

link_body(v, st, cur, link, vis, gvis, allowed) ==
    IF v = "graph_generator"
    THEN link_body_all_edges(st, cur, link, vis, gvis, allowed)
    ELSE link_body_allowed_edges(st, cur, link, vis, gvis, allowed)

RECURSIVE link_loop(_, _, _, _, _, _, _)
link_loop(v, st, cur, links, vis, gvis, allowed) ==
    IF links = <<>> THEN st
    ELSE link_loop(v, link_body(v, st, cur, Head(links), vis, gvis, allowed),
                   cur, Tail(links), vis, gvis, allowed)

(***************************************************************************)
(* GraphGenerator.__init__ and the start of generate_graph.                *)
(***************************************************************************)
SeedSets == {S \in SUBSET URLS : Cardinality(S) <= MaxSeeds}

CrawlInit(v) ==
    /\ variant = v
    /\ allowed_domains \in SUBSET {EX, EVIL}
    /\ start_urls \in SeedSets
    /\ seeds = start_urls
    /\ max_pages \in 0..MaxPagesBound
    /\ visited_urls = {}
    /\ G = [nodes |-> {}, edges |-> {}]
    /\ pc = "generate"
    /\ start_url = NoUrl
    /\ queue = <<>>
    /\ visited = <<>>
    /\ fetched = [u \in URLS |-> 0]
    /\ enqueued = {}
    /\ sleeps = 0
    /\ last = NoLast
    /\ urls = <<>>
    /\ i = 1
    /\ processed_urls = <<>>
    /\ failed_urls = <<>>
    /\ documents = <<>>
    /\ log = <<>>
    /\ PureIdle
    /\ WsIdle

Init == CrawlInit("graph_generator")

InitUrlsVariant == CrawlInit("urls_graph_generator")

(***************************************************************************)
(* generate_graph: "for start_url in self.start_urls: self.crawl(...)".    *)
(* start_urls is a set, so the order of the seeds is not fixed.  The       *)
(* action covers the call and the first lines of crawl, up to the loop.    *)
(***************************************************************************)
CrawlStart ==
    /\ pc = "generate"
    /\ \E s \in start_urls :
        /\ start_url' = s
        /\ start_urls' = start_urls \ {s}
        /\ allowed_domains' = allowed_domains \cup {Netloc(s)}
        /\ queue' = <<s>>
        /\ enqueued' = enqueued \cup {s}
    /\ visited' = <<>>
    /\ sleeps' = 0
    /\ last' = NoLast
    /\ pc' = "crawl"
    /\ UNCHANGED <<scrapeVars, pureVars, wsVars, seeds, variant, max_pages, visited_urls, G, fetched>>

\* Off-by-one loop test: "<=" in place of "<".
LoopCondition_le == queue # <<>> /\ Len(visited) <= max_pages

\* "while queue and len(visited) < max_pages"
LoopCondition == queue # <<>> /\ Len(visited) < max_pages

\* A pop from the tail of the queue (depth-first order).
queue_pop_last(q) == [url |-> q[Len(q)], rest |-> SubSeq(q, 1, Len(q) - 1)]

\* A read of the head of the queue that leaves it on the queue.
queue_pop_peek(q) == [url |-> Head(q), rest |-> q]

\* queue.pop(0): the popped URL and what stays on the queue.
queue_pop(q) == [url |-> Head(q), rest |-> Tail(q)]

\* The dequeue test without the global set of earlier seeds.
already_visited_local(url) == url \in Range(visited)

\* "current_url in visited or current_url in self.visited_urls"
already_visited(url) == url \in Range(visited) \/ url \in visited_urls

\* An iteration that pops a URL already visited and continues.
CrawlSkip ==
    /\ pc = "crawl"
    /\ LoopCondition
    /\ LET current_url == queue_pop(queue).url
       IN  /\ already_visited(current_url)
           /\ queue' = queue_pop(queue).rest
           /\ last' = [url |-> current_url, outcome |-> "skip", links |-> <<>>]
    /\ UNCHANGED <<scrapeVars, pureVars, wsVars, seeds, variant, allowed_domains, start_urls, max_pages, visited_urls,
                   G, pc, start_url, visited, fetched, enqueued, sleeps>>

\* The extension blocklist of lines 96-99: its "continue" continues the inner
\* "for extensions" loop, so the iteration goes on whatever the URL ends with.
extension_filter_skips(url) ==
    \E k \in 1..Len(extensions_to_filter) :
        EndsWith(url, extensions_to_filter[k]) /\ FALSE

\* An iteration whose extract_links_from_url returns the links of the page.
CrawlVisit ==
    /\ pc = "crawl"
    /\ LoopCondition
    /\ LET current_url == queue_pop(queue).url
       IN  /\ ~already_visited(current_url)
           /\ ~extension_filter_skips(current_url)
           /\ \E anchors \in SeqsUpTo(URLS, MaxLinks) :
                LET links == drop_duplicates(anchors)
                    vis == Append(visited, current_url)
                    st == link_loop(variant, [q |-> queue_pop(queue).rest, g |-> G],
                                    current_url, links, vis, visited_urls,
                                    allowed_domains)
                IN  /\ visited' = vis
                    /\ queue' = st.q
                    /\ enqueued' = enqueued \cup
                          {st.q[k] : k \in Len(queue_pop(queue).rest) + 1 .. Len(st.q)}
                    /\ G' = IF current_url \notin st.g.nodes
                            THEN add_node(st.g, current_url) ELSE st.g
                    /\ last' = [url |-> current_url, outcome |-> "ok", links |-> links]
           /\ fetched' = [fetched EXCEPT ![current_url] = @ + 1]
           /\ sleeps' = sleeps + 1
    /\ UNCHANGED <<scrapeVars, pureVars, wsVars, seeds, variant, allowed_domains, start_urls, max_pages, visited_urls,
                   pc, start_url>>

\* An iteration whose request fails with a RequestException (transport error
\* or non-2xx status): extract_links_from_url returns an empty DataFrame.
CrawlVisitHttpError ==
    /\ pc = "crawl"
    /\ LoopCondition
    /\ LET current_url == queue_pop(queue).url
       IN  /\ ~already_visited(current_url)
           /\ ~extension_filter_skips(current_url)
           /\ visited' = Append(visited, current_url)
           /\ queue' = queue_pop(queue).rest
           /\ G' = IF current_url \notin G.nodes THEN add_node(G, current_url) ELSE G
           /\ fetched' = [fetched EXCEPT ![current_url] = @ + 1]
           /\ last' = [url |-> current_url, outcome |-> "http_error", links |-> <<>>]
    /\ sleeps' = sleeps + 1
    /\ UNCHANGED <<scrapeVars, pureVars, wsVars, seeds, variant, allowed_domains, start_urls, max_pages, visited_urls,
                   pc, start_url, enqueued>>

\* The same failure without the try/except of crawl: the exception leaves
\* crawl and generate_graph.
CrawlVisitRaises_propagates ==
    /\ pc = "crawl"
    /\ LoopCondition
    /\ LET current_url == queue_pop(queue).url
       IN  /\ ~already_visited(current_url)
           /\ visited' = Append(visited, current_url)
           /\ queue' = queue_pop(queue).rest
           /\ fetched' = [fetched EXCEPT ![current_url] = @ + 1]
           /\ last' = [url |-> current_url, outcome |-> "raised", links |-> <<>>]
    /\ pc' = "returned"
    /\ UNCHANGED <<scrapeVars, pureVars, wsVars, seeds, variant, allowed_domains, start_urls,
                   max_pages, visited_urls, G, start_url, enqueued, sleeps>>

\* An iteration in which extract_links_from_url raises something else than a
\* RequestException (the parse of the body): caught by "except Exception".
CrawlVisitRaises ==
    /\ pc = "crawl"
    /\ LoopCondition
    /\ LET current_url == queue_pop(queue).url
       IN  /\ ~already_visited(current_url)
           /\ ~extension_filter_skips(current_url)
           /\ visited' = Append(visited, current_url)
           /\ queue' = queue_pop(queue).rest
           /\ fetched' = [fetched EXCEPT ![current_url] = @ + 1]
           /\ last' = [url |-> current_url, outcome |-> "raised", links |-> <<>>]
    /\ UNCHANGED <<scrapeVars, pureVars, wsVars, seeds, variant, allowed_domains, start_urls, max_pages, visited_urls,
                   G, pc, start_url, enqueued, sleeps>>

\* The end of crawl with the global set replaced by this seed's visited list.
CrawlExit_replace ==
    /\ pc = "crawl"
    /\ ~LoopCondition
    /\ visited_urls' = Range(visited)
    /\ pc' = "generate"
    /\ last' = NoLast
    /\ UNCHANGED <<scrapeVars, pureVars, wsVars, seeds, variant, allowed_domains, start_urls, max_pages, G, start_url,
                   queue, visited, fetched, enqueued, sleeps>>

\* The loop ends: the visited list is merged into the global set.
CrawlExit ==
    /\ pc = "crawl"
    /\ ~LoopCondition
    /\ visited_urls' = visited_urls \cup Range(visited)
    /\ pc' = "generate"
    /\ last' = NoLast
    /\ UNCHANGED <<scrapeVars, pureVars, wsVars, seeds, variant, allowed_domains, start_urls, max_pages, G, start_url,
                   queue, visited, fetched, enqueued, sleeps>>

\* generate_graph returns self.G once every seed was crawled.
GenerateReturn ==
    /\ pc = "generate"
    /\ start_urls = {}
    /\ pc' = "returned"
    /\ UNCHANGED <<scrapeVars, pureVars, wsVars, seeds, variant, allowed_domains, start_urls, max_pages, visited_urls,
                   G, start_url, queue, visited, fetched, enqueued, sleeps, last>>


(***************************************************************************)
(* Scraper (scraper.py).  What the collaborators (requests, pdf2image,     *)
(* pytesseract, BeautifulSoup) do for one URL is an input of the step.     *)
(***************************************************************************)
\* "doc.php" in url
ContainsDocPhp(url) == "doc.php" \in Range(url.path)

PdfOutcomes == {"request_raises", "non_200", "convert_raises", "ok"}
HtmlOutcomes == {"request_exception", "parse_error", "no_content", "ok"}
PhpOutcomes == {"raises", "ok"}

Document(content, url) == [page_content |-> content, metadata |-> [url |-> url]]

\* download_pdf: [raised, docs].  Any status other than 200 falls through the
\* "if" and the method returns None without a Document and without raising.
download_pdf(docs, url, o) ==
    CASE o = "request_raises" -> [raised |-> TRUE, docs |-> docs]
      [] o = "non_200"        -> [raised |-> FALSE, docs |-> docs]
      [] o = "convert_raises" -> [raised |-> TRUE, docs |-> docs]
      [] OTHER                -> [raised |-> FALSE,
                                  docs |-> Append(docs, Document("ocr", url))]

\* A download_php_doc that throws away the Documents collected so far when it
\* fails.
download_php_doc_discards(docs, url, o) ==
    IF o = "raises"
    THEN [raised |-> TRUE, docs |-> <<>>]
    ELSE [raised |-> FALSE, docs |-> Append(docs, [page_content |-> "ocr", metadata |-> [url |-> url]])]

\* download_php_doc: the Document carries the rebuilt URL of the PDF.
processed_url(url) == [netloc |-> Netloc(url), path |-> <<"/", ".pdf">>]

download_php_doc(docs, url, o) ==
    IF o = "raises"
    THEN [raised |-> TRUE, docs |-> docs]
    ELSE [raised |-> FALSE, docs |-> Append(docs, Document("ocr", processed_url(url)))]

\* download_html_content: both try blocks end in "return None", and finding
\* no content block returns None too, so the method never raises.
download_html_content(docs, url, o) ==
    CASE o = "request_exception" -> [raised |-> FALSE, docs |-> docs]
      [] o = "parse_error"       -> [raised |-> FALSE, docs |-> docs]
      [] o = "no_content"        -> [raised |-> FALSE, docs |-> docs]
      [] OTHER                   -> [raised |-> FALSE,
                                     docs |-> Append(docs, Document("markdown", url))]

\* An except clause that logs the error and records nothing.
record_result_silent(url, raised, docs, entry) ==
    /\ documents' = docs
    /\ processed_urls' = IF raised THEN processed_urls ELSE Append(processed_urls, url)
    /\ failed_urls' = failed_urls
    /\ log' = Append(log, [php |-> entry.php, pdf |-> entry.pdf, html |-> entry.html,
                            recorded |-> IF raised THEN "failed" ELSE "processed",
                            doc |-> Len(docs) > Len(documents)])
    /\ i' = i + 1

\* The end of one iteration of scrape's for loop: lines 40-44.
record_result(url, raised, docs, entry) ==
    /\ documents' = docs
    /\ processed_urls' = IF raised THEN processed_urls ELSE Append(processed_urls, url)
    /\ failed_urls' = IF raised THEN Append(failed_urls, url) ELSE failed_urls
    /\ log' = Append(log, [php |-> entry.php, pdf |-> entry.pdf, html |-> entry.html,
                            recorded |-> IF raised THEN "failed" ELSE "processed",
                            doc |-> Len(docs) > Len(documents)])
    /\ i' = i + 1

ScrapeInit ==
    /\ variant = "graph_generator"
    /\ allowed_domains = {}
    /\ start_urls = {}
    /\ seeds = {}
    /\ max_pages = 0
    /\ visited_urls = {}
    /\ G = [nodes |-> {}, edges |-> {}]
    /\ pc = "scrape"
    /\ start_url = NoUrl
    /\ queue = <<>>
    /\ visited = <<>>
    /\ fetched = [u \in URLS |-> 0]
    /\ enqueued = {}
    /\ sleeps = 0
    /\ last = NoLast
    /\ urls \in SeqsUpTo(SCRAPE_URLS, MaxUrls)
    /\ i = 1
    /\ processed_urls = <<>>
    /\ failed_urls = <<>>
    /\ documents = <<>>
    /\ log = <<>>
    /\ PureIdle
    /\ WsIdle

\* An iteration for a document-redirect URL.
ScrapePhpDoc ==
    /\ pc = "scrape"
    /\ i <= Len(urls)
    /\ ContainsDocPhp(urls[i])
    /\ \E o \in PhpOutcomes :
        LET r == download_php_doc(documents, urls[i], o)
        IN  record_result(urls[i], r.raised, r.docs,
                          [php |-> o, pdf |-> "none", html |-> "none"])
    /\ UNCHANGED <<crawlVars, pureVars, wsVars, urls>>

\* An iteration whose download_pdf returns normally.
ScrapePdf ==
    /\ pc = "scrape"
    /\ i <= Len(urls)
    /\ ~ContainsDocPhp(urls[i])
    /\ \E o \in PdfOutcomes :
        LET r == download_pdf(documents, urls[i], o)
        IN  /\ ~r.raised
            /\ record_result(urls[i], FALSE, r.docs,
                             [php |-> "none", pdf |-> o, html |-> "none"])
    /\ UNCHANGED <<crawlVars, pureVars, wsVars, urls>>

\* An iteration whose download_pdf raises: download_html_content is called.
ScrapeHtmlFallback ==
    /\ pc = "scrape"
    /\ i <= Len(urls)
    /\ ~ContainsDocPhp(urls[i])
    /\ \E o \in PdfOutcomes, h \in HtmlOutcomes :
        LET r == download_pdf(documents, urls[i], o)
            r2 == download_html_content(r.docs, urls[i], h)
        IN  /\ r.raised
            /\ record_result(urls[i], r2.raised, r2.docs,
                             [php |-> "none", pdf |-> o, html |-> h])
    /\ UNCHANGED <<crawlVars, pureVars, wsVars, urls>>

\* scrape returns at the end of the list.
ScrapeReturn ==
    /\ pc = "scrape"
    /\ i > Len(urls)
    /\ pc' = "scraped"
    /\ UNCHANGED <<scrapeVars, pureVars, wsVars, seeds, variant, allowed_domains, start_urls, max_pages,
                   visited_urls, G, start_url, queue, visited, fetched, enqueued, sleeps, last>>

vars == <<crawlVars, scrapeVars, pureVars, wsVars>>

(***************************************************************************)
(* The functions without state, each applied once to an input drawn at     *)
(* the start.  The crawler and the Scraper stay in their constructed state.*)
(***************************************************************************)
CrawlIdle ==
    /\ variant = "graph_generator"
    /\ seeds = {}
    /\ allowed_domains = {}
    /\ start_urls = {}
    /\ max_pages = 0
    /\ visited_urls = {}
    /\ G = [nodes |-> {}, edges |-> {}]
    /\ start_url = NoUrl
    /\ queue = <<>>
    /\ visited = <<>>
    /\ fetched = [u \in URLS |-> 0]
    /\ enqueued = {}
    /\ sleeps = 0
    /\ last = NoLast

ScrapeIdle ==
    /\ urls = <<>>
    /\ i = 1
    /\ processed_urls = <<>>
    /\ failed_urls = <<>>
    /\ documents = <<>>
    /\ log = <<>>

\* fn, arg and res after the call of f on arg.
Applied(f, r) ==
    /\ fn = "none"
    /\ fn' = f
    /\ res' = r
    /\ UNCHANGED <<arg, crawlVars, scrapeVars, wsVars>>

(***************************************************************************)
(* Link Extractor: the anchor loop of GraphGenerator.extract_links_from_url*)
(* and of extract_links (extract_links.py).  An href is relative (a path), *)
(* absolute, "#...", "javascript:..." or the empty string.                 *)
(***************************************************************************)
H_REL == [kind |-> "relative", netloc |-> <<>>, path |-> <<"/a">>]
H_ABS == [kind |-> "absolute", netloc |-> EX, path |-> <<"/a">>]
H_OUT == [kind |-> "absolute", netloc |-> EVIL, path |-> <<"/">>]
H_FRAG == [kind |-> "fragment", netloc |-> <<>>, path |-> <<>>]
H_JS == [kind |-> "javascript", netloc |-> <<>>, path |-> <<>>]
H_EMPTY == [kind |-> "empty", netloc |-> <<>>, path |-> <<>>]

HREFS == {H_REL, H_ABS, H_OUT, H_FRAG, H_JS, H_EMPTY}

\* href.startswith(('javascript:', '#'))
starts_with_js_or_hash(href) == href.kind \in {"javascript", "fragment"}

\* urljoin(base_url, href)
urljoin(base, href) ==
    CASE href.kind = "absolute" -> [netloc |-> href.netloc, path |-> href.path]
      [] href.kind = "relative" -> [netloc |-> base.netloc, path |-> href.path]
      [] OTHER                  -> base

\* The test that skips an anchor: "not href or href.startswith(...)" in
\* graph_generator.py, "not isinstance(href, str) or href.startswith(...)" in
\* extract_links.py, where every href of a parsed page is a str.
skips_anchor(extractor, href) ==
    IF extractor = "extract_links_from_url"
    THEN href.kind = "empty" \/ starts_with_js_or_hash(href)
    ELSE starts_with_js_or_hash(href)

RECURSIVE anchor_loop(_, _, _)
anchor_loop(extractor, base, anchors) ==
    IF anchors = <<>> THEN <<>>
    ELSE LET rest == anchor_loop(extractor, base, Tail(anchors))
         IN  IF skips_anchor(extractor, Head(anchors))
             THEN rest
             ELSE <<urljoin(base, Head(anchors))>> \o rest

\* The 'url' column of the DataFrame returned for a fetched page.
extract_links(a) == drop_duplicates(anchor_loop(a.extractor, a.base, a.anchors))

LinkInputs ==
    [extractor : {"extract_links_from_url", "extract_links"},
     base : {U1, U3},
     anchors : SeqsUpTo(HREFS, MaxAnchors)]

LinkInit ==
    /\ pc = "extract_links"
    /\ CrawlIdle
    /\ ScrapeIdle
    /\ WsIdle
    /\ fn = "none"
    /\ arg \in LinkInputs
    /\ res = NoResult

ApplyExtractLinks ==
    /\ pc = "extract_links"
    /\ Applied("extract_links", extract_links(arg))

NextLinks == ApplyExtractLinks

SpecLinks == LinkInit /\ [][NextLinks]_vars


(***************************************************************************)
(* Region Selector: _extract_content_blocks, _extract_fallback_content,    *)
(* _group_paragraphs and _is_content_container of Scraper.                 *)
(*                                                                         *)
(* A cleaned page is a sequence of container elements in document order    *)
(* and a sequence of paragraphs, each directly in the body (at = 0) or in  *)
(* the container elems[at].  A container has its tag, its attributes and   *)
(* what it holds besides the paragraphs: extra text, headings (h1-h6), li, *)
(* lists and quotes (ul, ol, blockquote), links and other elements.        *)
(* Scores are kept in hundredths, each term rounded down.                  *)
(***************************************************************************)
E_BODY_DIV ==
    [tag |-> "div", itemprop |-> TRUE, cls |-> "", role |-> "", extra |-> 0,
     heads |-> 0, li |-> 0, quotes |-> 0, links |-> 0, link_text |-> 0, other |-> 0]
E_BODY_ARTICLE ==
    [tag |-> "article", itemprop |-> TRUE, cls |-> "", role |-> "", extra |-> 300,
     heads |-> 3, li |-> 0, quotes |-> 0, links |-> 0, link_text |-> 0, other |-> 0]
E_ARTICLE ==
    [tag |-> "article", itemprop |-> FALSE, cls |-> "", role |-> "", extra |-> 240,
     heads |-> 3, li |-> 0, quotes |-> 0, links |-> 1, link_text |-> 24, other |-> 2]
E_MAIN ==
    [tag |-> "main", itemprop |-> FALSE, cls |-> "", role |-> "", extra |-> 120,
     heads |-> 1, li |-> 1, quotes |-> 1, links |-> 0, link_text |-> 0, other |-> 0]
E_QUOTES ==
    [tag |-> "section", itemprop |-> FALSE, cls |-> "", role |-> "", extra |-> 300,
     heads |-> 0, li |-> 0, quotes |-> 3, links |-> 0, link_text |-> 0, other |-> 0]
E_SOCIAL ==
    [tag |-> "section", itemprop |-> FALSE, cls |-> "social-box", role |-> "", extra |-> 300,
     heads |-> 3, li |-> 0, quotes |-> 0, links |-> 3, link_text |-> 30, other |-> 0]
E_CONTENT_DIV ==
    [tag |-> "div", itemprop |-> FALSE, cls |-> "post-content", role |-> "", extra |-> 0,
     heads |-> 0, li |-> 0, quotes |-> 0, links |-> 0, link_text |-> 0, other |-> 0]
E_TEXT_DIV ==
    [tag |-> "div", itemprop |-> FALSE, cls |-> "post-content", role |-> "", extra |-> 120,
     heads |-> 0, li |-> 0, quotes |-> 0, links |-> 0, link_text |-> 0, other |-> 0]

ELEMS ==
    {E_BODY_DIV, E_BODY_ARTICLE, E_ARTICLE, E_MAIN, E_QUOTES, E_SOCIAL, E_CONTENT_DIV,
     E_TEXT_DIV}

\* Lengths of a paragraph's text, and where a paragraph can be.
PARA_TEXTS == {10, 100}
PARA_PLACES == 0..2

PAGES ==
    {d \in [elems : SeqsUpTo(ELEMS, MaxElems),
            paras : SeqsUpTo([text : PARA_TEXTS, at : PARA_PLACES], MaxParas)] :
        \A k \in 1..Len(d.paras) : d.paras[k].at <= Len(d.elems)}

RECURSIVE SumSeq(_)
SumSeq(s) == IF s = <<>> THEN 0 ELSE Head(s) + SumSeq(Tail(s))

\* The paragraphs of the page that are inside elems[k], in document order.
paragraphs_in(d, k) ==
    LET Test(p) == p.at = k IN SelectSeq(d.paras, Test)

texts_of(ps) == [k \in 1..Len(ps) |-> ps[k].text]

\* len(element.get_text(strip=True))
text_length(d, k) == d.elems[k].extra + SumSeq(texts_of(paragraphs_in(d, k)))

\* len(container.find_all(["p", "h1", ..., "h6", "li"]))
tag_count(d, k) == Len(paragraphs_in(d, k)) + d.elems[k].heads + d.elems[k].li

\* len(element.find_all(["p", "h1", ..., "h6", "ul", "ol", "blockquote"]))
block_count(d, k) == Len(paragraphs_in(d, k)) + d.elems[k].heads + d.elems[k].quotes

\* len(container.find_all())
descendant_count(d, k) ==
    Len(paragraphs_in(d, k)) + d.elems[k].heads + d.elems[k].li + d.elems[k].quotes
        + d.elems[k].links + d.elems[k].other

Max(a, b) == IF a >= b THEN a ELSE b

\* any(pattern in value.lower() for pattern in skip_patterns)
has_skip_pattern(cls) == cls \in {"social-box"}

\* any(indicator in attr for indicator in content_indicators)
has_content_indicator(cls) == cls \in {"post-content"}

skip_roles == {"navigation", "banner", "complementary", "contentinfo"}

\* _is_content_container(element)
is_content_container(d, k) ==
    /\ text_length(d, k) >= 200
    /\ block_count(d, k) >= 3
    /\ ~has_skip_pattern(d.elems[k].cls)
    /\ d.elems[k].role \notin skip_roles

ElementRegion(k) == [kind |-> "element", index |-> k, texts |-> <<>>]
SyntheticRegion(texts) == [kind |-> "synthetic", index |-> 0, texts |-> texts]

\* The score of lines 254-283, in hundredths.
semantic_score(d, k) ==
    LET t == text_length(d, k)
        c == tag_count(d, k)
        n == Max(1, descendant_count(d, k))
        l == d.elems[k].links
        lt == d.elems[k].link_text
    IN  (40 * t) \div c + (3000 * c) \div n
          + (1500 - (1500 * l) \div Max(1, c))
          + (1500 - (1500 * lt) \div Max(1, t))
          + (IF d.elems[k].tag = "article" THEN 2000 ELSE 0)

\* scored_blocks.sort(reverse=True, key=score): descending, equal scores keep
\* their order.
RECURSIVE sort_by_score(_)
sort_by_score(blocks) ==
    IF blocks = <<>> THEN <<>>
    ELSE LET sorted == sort_by_score(SubSeq(blocks, 1, Len(blocks) - 1))
             b == blocks[Len(blocks)]
             before == {k \in 1..Len(sorted) : sorted[k].score >= b.score}
             n == Cardinality(before)
         IN  SubSeq(sorted, 1, n) \o <<b>> \o SubSeq(sorted, n + 1, Len(sorted))

\* soup.find("div", itemprop="articleBody"): the index of the first one, or 0.
find_article_body(d) ==
    LET hits == {k \in 1..Len(d.elems) :
                    d.elems[k].tag = "div" /\ d.elems[k].itemprop}
    IN  IF hits = {} THEN 0 ELSE CHOOSE k \in hits : \A j \in hits : k <= j

\* The loop of lines 248-285 over the first n elements.
RECURSIVE priority_loop(_, _)
priority_loop(d, n) ==
    IF n = 0 THEN <<>>
    ELSE LET scored == priority_loop(d, n - 1)
         IN  IF /\ d.elems[n].tag \in {"main", "article", "section"}
                /\ is_content_container(d, n)
                /\ tag_count(d, n) # 0
             THEN Append(scored, [score |-> semantic_score(d, n), region |-> ElementRegion(n)])
             ELSE scored

\* Lines 288-302: the top one or two blocks.
top_blocks(scored) ==
    IF scored = <<>> THEN <<>>
    ELSE LET sorted == sort_by_score(scored)
         IN  IF Len(sorted) > 1 /\ 2 * sorted[1].score > 3 * sorted[2].score
             THEN <<sorted[1]>>
             ELSE IF Len(sorted) > 1 THEN SubSeq(sorted, 1, 2)
             ELSE <<sorted[1]>>

\* _extract_content_blocks(soup)
extract_content_blocks(d) ==
    IF find_article_body(d) # 0
    THEN <<[score |-> 10000, region |-> ElementRegion(find_article_body(d))]>>
    ELSE top_blocks(priority_loop(d, Len(d.elems)))

\* The div loop of lines 308-353 over the first n elements.
RECURSIVE div_loop(_, _)
div_loop(d, n) ==
    IF n = 0 THEN <<>>
    ELSE LET scored == div_loop(d, n - 1)
             p_count == Len(paragraphs_in(d, n))
             t == text_length(d, n)
         IN  IF /\ d.elems[n].tag = "div"
                /\ has_content_indicator(d.elems[n].cls)
                /\ p_count > 0
                /\ p_count >= 3
                /\ t > 30 * p_count
             THEN Append(scored, [score |-> (20 * t) \div p_count + 200 * p_count,
                                  region |-> ElementRegion(n)])
             ELSE scored

\* Lines 355-357.
keyword_blocks(d) ==
    LET scored == div_loop(d, Len(d.elems))
    IN  IF scored # <<>> THEN <<sort_by_score(scored)[1]>> ELSE <<>>

\* [p for p in paragraphs if len(p.get_text(strip=True)) > 80]
content_paragraphs(d) ==
    LET Test(p) == p.text > 80 IN SelectSeq(d.paras, Test)

\* _group_paragraphs(paragraphs): the parents dict keeps the order in which
\* the ancestors are met, and max() returns the first of the largest counts.
group_paragraphs(d, ps) ==
    LET parents == {ps[k].at : k \in 1..Len(ps)} \ {0}
        count(a) == Cardinality({k \in 1..Len(ps) : ps[k].at = a})
        first(a) == CHOOSE k \in 1..Len(ps) : ps[k].at = a /\ \A j \in 1..k - 1 : ps[j].at # a
        best_parent == CHOOSE a \in parents :
                          \A b \in parents :
                              count(a) > count(b) \/ (count(a) = count(b) /\ first(a) <= first(b))
    IN  IF ps = <<>> THEN <<>>
        ELSE IF parents = {} THEN <<>>
        ELSE IF 10 * count(best_parent) >= 7 * Len(ps) THEN <<ElementRegion(best_parent)>>
        ELSE <<SyntheticRegion(texts_of(ps))>>

\* len(group.get_text(strip=True))
region_text_length(d, r) ==
    IF r.kind = "element" THEN text_length(d, r.index) ELSE SumSeq(r.texts)

\* Lines 360-375.
pooled_blocks(d) ==
    LET cps == content_paragraphs(d)
        grouped == IF cps = <<>> THEN <<>> ELSE group_paragraphs(d, cps)
        Test(r) == region_text_length(d, r) > 200
        kept == SelectSeq(grouped, Test)
    IN  [k \in 1..Len(kept) |-> [score |-> 5000, region |-> kept[k]]]

\* The pooling tried before the keyword scan.
extract_fallback_content_pool_first(d) ==
    IF pooled_blocks(d) # <<>> THEN pooled_blocks(d) ELSE keyword_blocks(d)

\* _extract_fallback_content(soup)
extract_fallback_content(d) ==
    IF keyword_blocks(d) # <<>> THEN keyword_blocks(d) ELSE pooled_blocks(d)

\* Lines 137-146 of download_html_content: the blocks handed to the Normalizer.
select_regions(d) ==
    LET content_blocks == extract_content_blocks(d)
    IN  IF content_blocks = <<>> THEN extract_fallback_content(d) ELSE content_blocks

SelectInit ==
    /\ pc = "select_regions"
    /\ CrawlIdle
    /\ ScrapeIdle
    /\ WsIdle
    /\ fn = "none"
    /\ arg \in PAGES
    /\ res = NoResult

ApplySelect ==
    /\ pc = "select_regions"
    /\ Applied("select_regions", select_regions(arg))

NextSelect == ApplySelect

SpecSelect == SelectInit /\ [][NextSelect]_vars


(***************************************************************************)
(* Markdown Normalizer & Deduplicator: _html_to_markdown and               *)
(* _normalize_text of Scraper.                                             *)
(*                                                                         *)
(* A text is a sequence of runs [c, n]: the character c repeated n times,  *)
(* neighbouring runs holding different characters.  A region is given as   *)
(* the markdown html2text renders for it.                                  *)
(***************************************************************************)
Run(c, n) == [c |-> c, n |-> n]

RECURSIVE canon(_)
canon(s) ==
    IF s = <<>> THEN <<>>
    ELSE LET rest == canon(Tail(s))
             h == Head(s)
         IN  IF h.n = 0 THEN rest
             ELSE IF rest # <<>> /\ rest[1].c = h.c
                  THEN <<Run(h.c, h.n + rest[1].n)>> \o Tail(rest)
                  ELSE <<h>> \o rest

cat(s, t) == canon(s \o t)

text_len(s) == SumSeq([k \in 1..Len(s) |-> s[k].n])

WHITESPACE == {" ", "\n"}
MARKUP == {"#", "*", "_", "[", "]", "(", ")", "~", "backtick", ">", "|", "-"}
lower(c) == IF c = "A" THEN "a" ELSE IF c = "S" THEN "s" ELSE IF c = "T" THEN "t" ELSE c

RECURSIVE lstrip(_)
lstrip(s) == IF s # <<>> /\ Head(s).c \in WHITESPACE THEN lstrip(Tail(s)) ELSE s

RECURSIVE rstrip(_)
rstrip(s) ==
    IF s # <<>> /\ s[Len(s)].c \in WHITESPACE THEN rstrip(SubSeq(s, 1, Len(s) - 1)) ELSE s

strip(s) == rstrip(lstrip(s))

\* The whole string in place of its first n characters.
take_whole(s, n) == s

\* s[:n]
RECURSIVE take(_, _)
take(s, n) ==
    IF s = <<>> \/ n = 0 THEN <<>>
    ELSE IF Head(s).n >= n THEN <<Run(Head(s).c, n)>>
    ELSE <<Head(s)>> \o take(Tail(s), n - Head(s).n)

\* re.sub(r"\s+", " ", text)
collapse_whitespace(s) ==
    canon([k \in 1..Len(s) |->
              IF s[k].c \notin WHITESPACE THEN s[k]
              ELSE IF k > 1 /\ s[k - 1].c \in WHITESPACE THEN Run(" ", 0)
              ELSE Run(" ", 1)])

\* The re.sub of line 530: the markup characters are taken out.
remove_markup(s) ==
    canon([k \in 1..Len(s) |-> IF s[k].c \in MARKUP THEN Run(s[k].c, 0) ELSE s[k]])

\* normalized.lower()
lower_text(s) == canon([k \in 1..Len(s) |-> Run(lower(s[k].c), s[k].n)])

\* _normalize_text(text)
normalize_text(text) ==
    IF text = <<>> \/ strip(text) = <<>> THEN <<>>
    ELSE LET normalized == strip(lower_text(remove_markup(collapse_whitespace(text))))
         IN  IF text_len(normalized) < 20 THEN normalized ELSE take(normalized, 100)

\* re.sub(r"\n{3,}", "\n\n", md_part)
collapse_blank_lines(s) ==
    [k \in 1..Len(s) |-> IF s[k].c = "\n" /\ s[k].n >= 3 THEN Run("\n", 2) ELSE s[k]]

\* re.split(r"\n\n+", md_part), cur being the piece under way.
RECURSIVE split_loop(_, _)
split_loop(s, cur) ==
    IF s = <<>> THEN <<cur>>
    ELSE IF Head(s).c = "\n" /\ Head(s).n >= 2 THEN <<cur>> \o split_loop(Tail(s), <<>>)
    ELSE split_loop(Tail(s), Append(cur, Head(s)))

split_paragraphs(s) == split_loop(s, <<>>)

\* "\n\n".join(paragraphs)
RECURSIVE join(_)
join(ps) ==
    IF ps = <<>> THEN <<>>
    ELSE IF Len(ps) = 1 THEN ps[1]
    ELSE cat(cat(ps[1], <<Run("\n", 2)>>), join(Tail(ps)))

\* The test of lines 506-510 with no lower limit on the length but 20 itself.
keeps_paragraph_from_20(normalized, seen) ==
    /\ normalized # <<>>
    /\ normalized \notin seen
    /\ text_len(normalized) >= 20

\* The test of lines 506-510.
keeps_paragraph(normalized, seen) ==
    /\ normalized # <<>>
    /\ normalized \notin seen
    /\ text_len(normalized) > 20

\* The loop of lines 504-512: the paragraphs kept and the keys seen after it.
RECURSIVE paragraph_loop(_, _)
paragraph_loop(paragraphs, seen) ==
    IF paragraphs = <<>> THEN [unique |-> <<>>, seen |-> seen]
    ELSE LET paragraph == Head(paragraphs)
             normalized == normalize_text(paragraph)
             keep == keeps_paragraph(normalized, seen)
             rest == paragraph_loop(Tail(paragraphs),
                                    IF keep THEN seen \cup {normalized} ELSE seen)
         IN  [unique |-> IF keep THEN <<paragraph>> \o rest.unique ELSE rest.unique,
              seen |-> rest.seen]

\* The loop over the regions with a set of seen keys of its own for each.
RECURSIVE region_loop_own_set(_, _)
region_loop_own_set(parts, seen) ==
    IF parts = <<>> THEN <<>>
    ELSE LET md_part == collapse_blank_lines(Head(parts))
             r == paragraph_loop(split_paragraphs(md_part), {})
             added == IF r.unique # <<>>
                      THEN cat(join(r.unique), <<Run("\n", 2)>>)
                      ELSE <<>>
         IN  cat(added, region_loop_own_set(Tail(parts), {}))

\* The loop of lines 491-516 over the regions: what it adds to markdown_content,
\* seen being seen_content.
RECURSIVE region_loop(_, _)
region_loop(parts, seen) ==
    IF parts = <<>> THEN <<>>
    ELSE LET md_part == collapse_blank_lines(Head(parts))
             r == paragraph_loop(split_paragraphs(md_part), seen)
             added == IF r.unique # <<>>
                      THEN cat(join(r.unique), <<Run("\n", 2)>>)
                      ELSE <<>>
         IN  cat(added, region_loop(Tail(parts), r.seen))

SOURCE_LABEL ==
    <<Run("S", 1), Run("o", 1), Run("u", 1), Run("r", 1), Run("c", 1), Run("e", 1),
      Run(":", 1), Run(" ", 1)>>

\* f"\n\n---\nSource: {url}"
footer(url) == <<Run("\n", 2), Run("-", 3), Run("\n", 1)>> \o SOURCE_LABEL \o url

\* _html_to_markdown(title, content_blocks, url), parts being the markdown of
\* the blocks.
html_to_markdown(title, parts, url) ==
    strip(cat(cat(title, region_loop(parts, {})), footer(url)))

\* Paragraphs as html2text renders them.
P_A == <<Run("a", 30)>>
P_A_MARKED == <<Run("#", 2), Run(" ", 1), Run("A", 30)>>
P_B20 == <<Run("b", 20)>>
P_A120 == <<Run("a", 120)>>
P_A100B == <<Run("a", 100), Run("b", 5)>>
PARAGRAPHS == {P_A, P_A_MARKED, P_B20, P_A120, P_A100B}

\* html2text ends every paragraph with a blank line.
RECURSIVE render(_)
render(ps) == IF ps = <<>> THEN <<>> ELSE cat(cat(Head(ps), <<Run("\n", 2)>>), render(Tail(ps)))

\* _extract_title: "" or f"# {title}\n\n".
T_NONE == <<>>
T_SHORT == <<Run("#", 1), Run(" ", 1), Run("T", 5), Run("\n", 2)>>
T_LONG == <<Run("#", 1), Run(" ", 1), Run("A", 30), Run("\n", 2)>>
TITLES == {T_NONE, T_SHORT, T_LONG}

\* URLs of 12 and 13 characters.
URL_12 == <<Run("h", 12)>>
URL_13 == <<Run("h", 10), Run("-", 2), Run("h", 3)>>
URL_TEXTS == {URL_12, URL_13}

\* The Region Selector hands over one or two regions.
MaxRegions == 2

MarkdownInputs ==
    [title : TITLES,
     regions : {rs \in SeqsUpTo(SeqsUpTo(PARAGRAPHS, MaxRegionParas), MaxRegions) : rs # <<>>},
     url : URL_TEXTS]

MarkdownInit ==
    /\ pc = "_html_to_markdown"
    /\ CrawlIdle
    /\ ScrapeIdle
    /\ WsIdle
    /\ fn = "none"
    /\ arg \in MarkdownInputs
    /\ res = NoResult

ApplyMarkdown ==
    /\ pc = "_html_to_markdown"
    /\ fn = "none"
    /\ Applied("_html_to_markdown",
               html_to_markdown(arg.title,
                                [k \in 1..Len(arg.regions) |-> render(arg.regions[k])],
                                arg.url))

\* The output is given back as the only region, with the same title and URL.
FeedBack ==
    /\ pc = "_html_to_markdown"
    /\ fn = "_html_to_markdown"
    /\ fn' = "feed_back"
    /\ res' = [first |-> res, second |-> html_to_markdown(arg.title, <<res>>, arg.url)]
    /\ UNCHANGED <<arg, crawlVars, scrapeVars, wsVars>>

NextMarkdown == ApplyMarkdown \/ FeedBack

SpecMarkdown == MarkdownInit /\ [][NextMarkdown]_vars

(***************************************************************************)
(* Domain Filter: is_allowed_domain(url) with its try/except.              *)
(***************************************************************************)
COM == <<"com">>
OTHER_HOST == <<"notexample", "com">>
NO_NETLOC == <<>>

FilterHosts == {EX, SUB, EVIL, COM, OTHER_HOST, NO_NETLOC}
FilterDomains == {EX, SUB, COM, NO_NETLOC}

\* parses = FALSE: urlparse raises ValueError on the URL.
FilterInputs ==
    [netloc : FilterHosts, parses : BOOLEAN, allowed : SUBSET FilterDomains]

is_allowed_domain_call(a) ==
    IF a.parses
    THEN is_allowed_domain([netloc |-> a.netloc, path |-> <<"/">>], a.allowed)
    ELSE FALSE

FilterInit ==
    /\ pc = "is_allowed_domain"
    /\ CrawlIdle
    /\ ScrapeIdle
    /\ WsIdle
    /\ fn = "none"
    /\ arg \in FilterInputs
    /\ res = NoResult

ApplyFilter ==
    /\ pc = "is_allowed_domain"
    /\ Applied("is_allowed_domain", is_allowed_domain_call(arg))

NextFilter == ApplyFilter

SpecFilter == FilterInit /\ [][NextFilter]_vars


Next ==
    \/ CrawlStart
    \/ CrawlSkip
    \/ CrawlVisit
    \/ CrawlVisitHttpError
    \/ CrawlVisitRaises
    \/ CrawlExit
    \/ GenerateReturn

Spec == Init /\ [][Next]_vars

\* The run of generate_graph goes on while a step is possible: nothing but the
\* program's own statements stops it.
SpecLive == Init /\ [][Next]_vars /\ WF_vars(Next)

SpecUrlsVariant == InitUrlsVariant /\ [][Next]_vars

NextScrape ==
    \/ ScrapePhpDoc
    \/ ScrapePdf
    \/ ScrapeHtmlFallback
    \/ ScrapeReturn

SpecScrape == ScrapeInit /\ [][NextScrape]_vars

(***************************************************************************)
(* WebScraper (download_all_files.py): __init__, is_valid_url,             *)
(* is_text_file and scrape.  A link is given as urljoin returns it.        *)
(***************************************************************************)
W_PAGE == [netloc |-> EX, path |-> <<"/a">>]
W_FILE == [netloc |-> EX, path |-> <<"/f", ".txt">>]
\* "mailto:biuro@agh.edu.pl": no authority, and a path that ends with ".pl".
W_MAILTO == [netloc |-> <<>>, path |-> <<"mailto:", ".pl">>]
WS_URLS == {U1, W_PAGE, W_FILE, U3, W_MAILTO}

text_extensions == {".txt", ".pl"}

\* is_valid_url(url)
is_valid_url(url, domain, vis) ==
    (Netloc(url) = domain \/ Netloc(url) = <<>>) /\ url \notin vis

\* is_text_file(url); head_is_text is what the HEAD request tells about a URL
\* without an extension (FALSE when it raises).
is_text_file(url, head_is_text) ==
    IF url.path[Len(url.path)] \in text_extensions THEN TRUE
    ELSE head_is_text

\* The loop of lines 179-189 over the links of a page.
RECURSIVE valid_links(_, _, _)
valid_links(links, domain, vis) ==
    IF links = <<>> THEN <<>>
    ELSE IF is_valid_url(Head(links), domain, vis)
         THEN <<Head(links)>> \o valid_links(Tail(links), domain, vis)
         ELSE valid_links(Tail(links), domain, vis)

WsInit ==
    /\ pc = "WebScraper.scrape"
    /\ base_url \in {U1, W_PAGE}
    /\ max_files \in {[none |-> TRUE, n |-> 0]} \cup [none : {FALSE}, n : 0..MaxFiles]
    /\ files_downloaded = 0
    /\ queue = <<base_url>>
    /\ visited_urls = {}
    /\ variant = "graph_generator"
    /\ seeds = {}
    /\ allowed_domains = {}
    /\ start_urls = {}
    /\ max_pages = 0
    /\ G = [nodes |-> {}, edges |-> {}]
    /\ start_url = NoUrl
    /\ visited = <<>>
    /\ fetched = [u \in URLS |-> 0]
    /\ enqueued = {}
    /\ sleeps = 0
    /\ last = NoLast
    /\ ScrapeIdle
    /\ PureIdle

\* "while self.queue and (max_files is None or files_downloaded < max_files)"
WsLoopCondition ==
    queue # <<>> /\ (max_files.none \/ files_downloaded < max_files.n)

WsFrame ==
    UNCHANGED <<scrapeVars, pureVars, base_url, max_files, variant, seeds, allowed_domains,
                start_urls, max_pages, G, start_url, visited, fetched, enqueued, pc>>

\* An iteration that pops a URL already visited.
WsSkip ==
    /\ pc = "WebScraper.scrape"
    /\ WsLoopCondition
    /\ Head(queue) \in visited_urls
    /\ queue' = Tail(queue)
    /\ last' = [url |-> Head(queue), outcome |-> "skip", links |-> <<>>]
    /\ UNCHANGED <<visited_urls, files_downloaded, sleeps>>
    /\ WsFrame

\* An iteration for a text file: download_file returns True or False; of a URL
\* without authority requests.get raises and it returns False.
WsTextFile ==
    /\ pc = "WebScraper.scrape"
    /\ WsLoopCondition
    /\ Head(queue) \notin visited_urls
    /\ \E head_is_text, downloaded \in BOOLEAN :
        /\ is_text_file(Head(queue), head_is_text)
        /\ Netloc(Head(queue)) = <<>> => ~downloaded
        /\ files_downloaded' = IF downloaded THEN files_downloaded + 1 ELSE files_downloaded
        /\ last' = [url |-> Head(queue),
                    outcome |-> IF downloaded THEN "downloaded" ELSE "not_downloaded",
                    links |-> <<>>]
    /\ visited_urls' = visited_urls \cup {Head(queue)}
    /\ queue' = Tail(queue)
    /\ sleeps' = sleeps + 1
    /\ WsFrame

\* An iteration for a page answered with a status other than 200.
WsNon200 ==
    /\ pc = "WebScraper.scrape"
    /\ WsLoopCondition
    /\ Head(queue) \notin visited_urls
    /\ ~is_text_file(Head(queue), FALSE)
    /\ visited_urls' = visited_urls \cup {Head(queue)}
    /\ queue' = Tail(queue)
    /\ last' = [url |-> Head(queue), outcome |-> "non_200", links |-> <<>>]
    /\ UNCHANGED <<files_downloaded, sleeps>>
    /\ WsFrame

\* An iteration whose request raises: caught by "except Exception".
WsRaises ==
    /\ pc = "WebScraper.scrape"
    /\ WsLoopCondition
    /\ Head(queue) \notin visited_urls
    /\ ~is_text_file(Head(queue), FALSE)
    /\ visited_urls' = visited_urls \cup {Head(queue)}
    /\ queue' = Tail(queue)
    /\ last' = [url |-> Head(queue), outcome |-> "raised", links |-> <<>>]
    /\ UNCHANGED <<files_downloaded, sleeps>>
    /\ WsFrame

\* An iteration for a page: its valid links are appended to the queue.
WsPage ==
    /\ pc = "WebScraper.scrape"
    /\ WsLoopCondition
    /\ Head(queue) \notin visited_urls
    /\ ~is_text_file(Head(queue), FALSE)
    /\ Netloc(Head(queue)) # <<>>
    /\ \E links \in SeqsUpTo(WS_URLS, MaxLinks) :
        /\ queue' = Tail(queue) \o
                      valid_links(links, Netloc(base_url), visited_urls \cup {Head(queue)})
        /\ last' = [url |-> Head(queue), outcome |-> "ok", links |-> links]
    /\ visited_urls' = visited_urls \cup {Head(queue)}
    /\ sleeps' = sleeps + 1
    /\ UNCHANGED files_downloaded
    /\ WsFrame

\* The loop ends and scrape returns.
WsReturn ==
    /\ pc = "WebScraper.scrape"
    /\ ~WsLoopCondition
    /\ pc' = "returned"
    /\ UNCHANGED <<scrapeVars, pureVars, base_url, max_files, files_downloaded, variant, seeds,
                   allowed_domains, start_urls, max_pages, G, start_url, visited, fetched,
                   enqueued, queue, visited_urls, sleeps, last>>

NextWs == WsSkip \/ WsTextFile \/ WsNon200 \/ WsRaises \/ WsPage \/ WsReturn

SpecWs == WsInit /\ [][NextWs]_vars


(***************************************************************************)
(* Properties of GraphGenerator.crawl and generate_graph.                  *)
(***************************************************************************)
\* URLs requested during the crawl call in progress.
FetchedThisCrawl == {u \in URLS : fetched[u] > 0} \ visited_urls

\* C1: during one crawl call the number of URLs marked visited, and the
\* number of URLs fetched, never exceeds max_pages (for every max_pages >= 0).
C1_BudgetRespected ==
    /\ Len(visited) <= max_pages
    /\ pc = "crawl" => Cardinality(FetchedThisCrawl) <= max_pages

\* The budget is used up while URLs are still queued.
C1_Witness ==
    /\ pc = "crawl"
    /\ max_pages = 2
    /\ Len(visited) = max_pages
    /\ queue # <<>>

\* C2: over a whole generate_graph run no URL is requested more than once,
\* and a dequeued URL that was visited before (in this crawl or an earlier
\* seed's crawl) is skipped without a request.
C2_NoRefetch ==
    /\ \A u \in URLS : fetched[u] <= 1
    /\ last.outcome = "skip" => fetched[last.url] = 1

\* A URL that two fetched pages had put on the queue was visited at its first
\* dequeue and is skipped at its second.
C2_Witness ==
    /\ last.outcome = "skip"
    /\ last.url \in Range(visited)
    /\ Cardinality({e \in G.edges : e[2] = last.url}) = 2
    /\ fetched[last.url] = 1


\* The links of a page that the loop appends to the queue, in page order.
Enqueueable(links, vis, gvis, allowed) ==
    LET Test(l) == is_allowed_domain(l, allowed) /\ l \notin Range(vis) /\ l \notin gvis
    IN  SelectSeq(links, Test)

\* The seed was fetched and links to the two other pages of a 3-page site.
SeedOfThreePageSite ==
    /\ pc = "crawl"
    /\ max_pages = 2
    /\ visited = <<start_url>>
    /\ last.url = start_url
    /\ last.outcome = "ok"
    /\ Len(last.links) = 2
    /\ start_url \notin Range(last.links)
    /\ \A l \in Range(last.links) :
         is_allowed_domain(l, allowed_domains) /\ l \notin visited_urls

\* C3: crawl visits in breadth-first (FIFO) order: the first URL visited is the
\* seed, every visit takes the head of the queue, and a page's in-domain
\* unvisited links join the tail of the queue in page order; on a 3-page site
\* whose seed links to both other pages, max_pages = 2 gives exactly the seed
\* and then the first link found on the seed.
C3_BreadthFirst ==
    /\ [](visited # <<>> => visited[1] = start_url)
    /\ [](SeedOfThreePageSite => queue = last.links)
    /\ [][(pc = "crawl" /\ pc' = "crawl") =>
            /\ visited' # visited => visited' = Append(visited, Head(queue))
            /\ queue' = Tail(queue) \o
                 Enqueueable(last'.links, visited', visited_urls, allowed_domains)
            /\ SeedOfThreePageSite =>
                 /\ visited' = <<start_url, last.links[1]>>
                 /\ ~LoopCondition']_vars

\* Two pages of a fully connected 3-page site were visited with max_pages = 2:
\* the seed, then its first link, with the third page left on the queue.
C3_Witness ==
    /\ pc = "crawl"
    /\ max_pages = 2
    /\ Len(visited) = 2
    /\ visited[1] = start_url
    /\ last.url = visited[2]
    /\ last.outcome = "ok"
    /\ \E third \in Range(queue) \ Range(visited) :
         /\ Range(last.links) = {start_url, third}
         /\ {<<start_url, visited[2]>>, <<start_url, third>>,
             <<visited[2], start_url>>, <<visited[2], third>>} \subseteq G.edges
         /\ Head(queue) = third

\* C9 (as claimed): after a page was processed, every link extracted from it is
\* an edge from that page, whether or not the link passes the Domain Filter.
C9_EveryLinkIsAnEdge ==
    last.outcome = "ok" =>
        \A l \in Range(last.links) : <<last.url, l>> \in G.edges

\* C10: a graph node that fails the Domain Filter against the current
\* allowed-domain set has no outgoing edge and was never queued or fetched.
C10_ExternalNodesAreLeaves ==
    \A n \in G.nodes :
        ~is_allowed_domain(n, allowed_domains) =>
            /\ \A e \in G.edges : e[1] # n
            /\ n \notin enqueued
            /\ n \notin Range(queue)
            /\ n \notin Range(visited) \cup visited_urls
            /\ fetched[n] = 0

\* An external node is in the graph, linked from a fetched page.
C10_Witness ==
    \E n \in G.nodes :
        /\ ~is_allowed_domain(n, allowed_domains)
        /\ \E e \in G.edges : e[2] = n /\ fetched[e[1]] = 1


\* C11 (as claimed): a URL that ends with a blocked extension (".jpg") is not
\* added to visited and is not fetched.
C11_BlockedExtensionExcluded ==
    \A u \in URLS :
        (\E k \in 1..Len(extensions_to_filter) : EndsWith(u, extensions_to_filter[k])) =>
            /\ u \notin Range(visited) \cup visited_urls
            /\ fetched[u] = 0

\* C12: a failure on one URL (a request error, or an exception raised while
\* the page is read) does not end the crawl: the URL stays visited, the graph
\* built so far is kept, and the loop goes on while its condition holds.
C12_ErrorsAbsorbed ==
    /\ [][(last' # last /\ last'.outcome \in {"raised", "http_error"}) =>
            /\ pc' = "crawl"
            /\ visited' = Append(visited, last'.url)
            /\ G.nodes \subseteq G'.nodes
            /\ G.edges \subseteq G'.edges]_vars
    /\ []((pc = "crawl" /\ last.outcome \in {"raised", "http_error"} /\ LoopCondition) =>
            ENABLED (CrawlSkip \/ CrawlVisit \/ CrawlVisitHttpError \/ CrawlVisitRaises))

\* A page raised after edges were added for an earlier page, and URLs are left.
C12_Witness ==
    /\ pc = "crawl"
    /\ last.outcome = "raised"
    /\ G.edges # {}
    /\ LoopCondition

\* C13 (as claimed): every URL marked visited is followed by the rate-limit
\* delay, whether its processing succeeded or raised.
C13_DelayAfterEveryVisit ==
    pc = "crawl" => sleeps = Len(visited)

\* A finished run over 2 seeds with max_pages = 1.
TwoSeedsBudgetOne ==
    /\ pc = "returned"
    /\ Cardinality(seeds) = 2
    /\ max_pages = 1

\* C14 (as claimed): 2 seeds with max_pages = 1 give a graph of exactly 2 nodes.
C14_ExactlyTwoNodes ==
    TwoSeedsBudgetOne => Cardinality(G.nodes) = 2

\* C14 (amended): 2 seeds with max_pages = 1: exactly the 2 seeds are fetched
\* and only they have outgoing edges; the nodes other than the seeds are the
\* targets of the links found on the seed pages.
C14_OnlySeedsExpanded ==
    TwoSeedsBudgetOne =>
        /\ {u \in URLS : fetched[u] > 0} = seeds
        /\ \A u \in seeds : fetched[u] = 1
        /\ visited_urls = seeds
        /\ \A e \in G.edges : e[1] \in seeds
        /\ G.nodes \ seeds = {e[2] : e \in G.edges} \ seeds

\* A link found on a seed page added a third node.
C14_Witness ==
    /\ TwoSeedsBudgetOne
    /\ Cardinality(G.nodes) = 3
    /\ \E e \in G.edges : e[2] \notin seeds


\* C21: every node of the graph that is not a seed URL has an incoming edge.
C21_NonSeedHasInEdge ==
    \A n \in G.nodes \ seeds : \E e \in G.edges : e[2] = n

\* A node outside the allowed domains and a node that was queued and then
\* visited, neither being a seed.
C21_Witness ==
    /\ seeds = {U1}
    /\ {U2, U3} \subseteq G.nodes
    /\ U2 \in Range(visited)
    /\ ~is_allowed_domain(U3, allowed_domains)

\* C22: the global visited set changes only when a seed's crawl ends and then
\* becomes its union with the URLs visited for that seed; it never loses a
\* URL; the crawl of a seed that is already in it requests nothing and leaves
\* the graph as it is.
C22_GlobalVisitedFrame ==
    /\ [][visited_urls' # visited_urls =>
            /\ pc = "crawl"
            /\ pc' = "generate"
            /\ visited_urls' = visited_urls \cup Range(visited)]_vars
    /\ [][visited_urls \subseteq visited_urls']_vars
    /\ [][(pc = "crawl" /\ start_url \in visited_urls) =>
            /\ G' = G
            /\ fetched' = fetched
            /\ visited' = visited]_vars

\* The second seed was visited during the crawl of the first: it is skipped.
C22_Witness ==
    /\ pc = "crawl"
    /\ start_url \in visited_urls
    /\ last.outcome = "skip"
    /\ last.url = start_url
    /\ queue = <<>>
    /\ G.edges # {}

\* C28: when crawl has returned, every URL it marked visited is a node of the
\* graph, whatever became of its request.
C28_VisitedAreNodes ==
    pc \in {"generate", "returned"} => visited_urls \subseteq G.nodes

\* C29: every call of crawl returns, whatever the links of the pages (cycles
\* and self-links included) and whatever max_pages.
C29_CrawlTerminates ==
    (pc = "crawl") ~> (pc = "generate")

\* A page that links to itself was visited and the loop is over with budget
\* left: the queue is empty.
C29_Witness ==
    /\ pc = "crawl"
    /\ last.outcome = "ok"
    /\ last.url \in Range(last.links)
    /\ queue = <<>>
    /\ Len(visited) < max_pages

(***************************************************************************)
(* Properties of the Domain Filter.                                        *)
(***************************************************************************)
\* a is p + "." + d for a non-empty prefix p.
IsSubdomainOf(a, d) ==
    /\ d # <<>>
    /\ \E p \in {SubSeq(a, 1, k) : k \in 1..Len(a)} : a = p \o d

\* C15: is_allowed_domain is true exactly when the authority equals a member
\* of allowed_domains or ends with "." and a member; sub.example.com and
\* example.com pass for {example.com}, example.com.evil.com does not; a URL
\* that cannot be parsed gives false.
C15_DomainFilter ==
    fn = "is_allowed_domain" =>
        /\ res \in BOOLEAN
        /\ arg.parses =>
             (res <=> \E d \in arg.allowed : arg.netloc = d \/ IsSubdomainOf(arg.netloc, d))
        /\ ~arg.parses => res = FALSE
        /\ (arg.parses /\ arg.allowed = {EX}) =>
             /\ arg.netloc = SUB => res = TRUE
             /\ arg.netloc = EX => res = TRUE
             /\ arg.netloc = EVIL => res = FALSE

\* example.com.evil.com was refused for {example.com}.
C15_Witness ==
    /\ fn = "is_allowed_domain"
    /\ arg.parses
    /\ arg.allowed = {EX}
    /\ arg.netloc = EVIL
    /\ res = FALSE


(***************************************************************************)
(* Properties of the Link Extractor.                                       *)
(***************************************************************************)
\* The anchors whose href is not of one of the kinds left out, in page order.
KeptAnchors(anchors, leftOut) ==
    LET Test(h) == h.kind \notin leftOut IN SelectSeq(anchors, Test)

\* r is s without the later duplicates of its elements.
IsFirstOccurrences(r, s) ==
    LET first == {k \in 1..Len(s) : \A j \in 1..k - 1 : s[j] # s[k]}
    IN  /\ Len(r) = Cardinality(first)
        /\ \A k \in 1..Len(r) :
             \E j \in first : r[k] = s[j] /\ Cardinality({m \in first : m < j}) = k - 1

\* The result is the hrefs but those of the kinds leftOut, resolved against
\* the base URL, in page order, first occurrences only.
LinksAre(leftOut) ==
    LET kept == KeptAnchors(arg.anchors, leftOut)
        resolved == [k \in 1..Len(kept) |-> urljoin(arg.base, kept[k])]
    IN  /\ IsFirstOccurrences(res, resolved)
        /\ Len(res) <= Len(arg.anchors)

HasArticleBody(k) == k \in 1..Len(arg.elems) /\ arg.elems[k].itemprop

\* C17: a page with an element carrying itemprop="articleBody", whatever its
\* tag and whatever else the page holds, yields exactly that one element with
\* score 100.
C17_ArticleBodyAlone ==
    (fn = "select_regions" /\ \E k \in 1..Len(arg.elems) : HasArticleBody(k)) =>
        \E k \in 1..Len(arg.elems) :
            /\ HasArticleBody(k)
            /\ res = <<[score |-> 10000, region |-> ElementRegion(k)]>>

\* What each of the four steps yields for the page, taken on its own.
ShortcutYield ==
    LET hits == {k \in 1..Len(arg.elems) :
                    arg.elems[k].tag = "div" /\ arg.elems[k].itemprop}
    IN  IF hits = {} THEN <<>>
        ELSE <<[score |-> 10000,
                region |-> ElementRegion(CHOOSE k \in hits : \A j \in hits : k <= j)]>>
SemanticYield == top_blocks(priority_loop(arg, Len(arg.elems)))
KeywordYield == keyword_blocks(arg)
PoolingYield == pooled_blocks(arg)

FirstYield ==
    IF ShortcutYield # <<>> THEN ShortcutYield
    ELSE IF SemanticYield # <<>> THEN SemanticYield
    ELSE IF KeywordYield # <<>> THEN KeywordYield
    ELSE PoolingYield

PassesPredicate(k) ==
    /\ arg.elems[k].tag \in {"main", "article", "section"}
    /\ is_content_container(arg, k)

\* C23: when the shortcut does not apply and a main, article or section
\* element passes the content-container predicate, the semantic-tag step
\* yields the result: it is not empty and holds such elements only.
C23_PassingElementsAreCandidates ==
    (/\ fn = "select_regions"
     /\ ShortcutYield = <<>>
     /\ \E k \in 1..Len(arg.elems) : PassesPredicate(k)) =>
        /\ res # <<>>
        /\ \A m \in 1..Len(res) :
              /\ res[m].region.kind = "element"
              /\ PassesPredicate(res[m].region.index)

\* C24: a result of the attribute-keyword step is one div that has at least 3
\* paragraphs whose average text length is above 30 characters.
C24_KeywordDivHasLongParagraphs ==
    (/\ fn = "select_regions"
     /\ ShortcutYield = <<>>
     /\ SemanticYield = <<>>
     /\ KeywordYield # <<>>) =>
        /\ Len(res) = 1
        /\ res[1].region.kind = "element"
        /\ LET ps == paragraphs_in(arg, res[1].region.index)
           IN  /\ arg.elems[res[1].region.index].tag = "div"
               /\ Len(ps) >= 3
               /\ SumSeq(texts_of(ps)) > 30 * Len(ps)

\* The candidate paragraphs of the pooling step, and how many of them are
\* inside elems[a].
Candidates == content_paragraphs(arg)
CandidatesIn(a) == Cardinality({k \in 1..Len(Candidates) : Candidates[k].at = a})

\* C25: when the pooling step is reached and no container holds at least 70%
\* of the candidate paragraphs (none of them being in a container included),
\* and the candidates have more than 200 characters together, the result is
\* the synthesized container of all candidates, in order, with score 50.
C25_SynthesizedContainer ==
    (/\ fn = "select_regions"
     /\ ShortcutYield = <<>>
     /\ SemanticYield = <<>>
     /\ KeywordYield = <<>>
     /\ Candidates # <<>>
     /\ \A a \in 1..Len(arg.elems) : 10 * CandidatesIn(a) < 7 * Len(Candidates)
     /\ SumSeq(texts_of(Candidates)) > 200) =>
        res = <<[score |-> 5000, region |-> SyntheticRegion(texts_of(Candidates))]>>

(***************************************************************************)
(* Properties of the Markdown Normalizer & Deduplicator.                   *)
(***************************************************************************)
RECURSIVE Flatten(_)
Flatten(ss) == IF ss = <<>> THEN <<>> ELSE Head(ss) \o Flatten(Tail(ss))

\* The paragraphs of all regions of the page, in order.
AllParagraphs == Flatten(arg.regions)

\* Of the first n of ps, those whose key is longer than 20 characters and is
\* the key of no earlier one.
RECURSIVE KeptUpTo(_, _)
KeptUpTo(ps, n) ==
    IF n = 0 THEN <<>>
    ELSE IF /\ text_len(normalize_text(ps[n])) > 20
            /\ \A j \in 1..n - 1 : normalize_text(ps[j]) # normalize_text(ps[n])
         THEN Append(KeptUpTo(ps, n - 1), ps[n])
         ELSE KeptUpTo(ps, n - 1)

Kept(ps) == KeptUpTo(ps, Len(ps))

\* The title, the paragraphs separated by blank lines, and the footer.
Assemble(title, ps, url) ==
    LET body == IF ps = <<>> THEN <<>> ELSE join(ps) \o <<Run("\n", 2)>>
    IN  strip(canon(title \o body \o footer(url)))

\* C19: one set of seen keys serves all regions of a page: a paragraph is kept
\* exactly when its key is longer than 20 characters and is the key of no
\* earlier paragraph of any region, so the output is the title, those
\* paragraphs in order and the footer.
C19_OneSeenSet ==
    fn = "_html_to_markdown" => res = Assemble(arg.title, Kept(AllParagraphs), arg.url)

\* Two regions share a paragraph: it is in the output once.
C19_Witness ==
    /\ fn = "_html_to_markdown"
    /\ arg.regions = <<<<P_A, P_B20>>, <<P_A, P_A120>>>>
    /\ res = Assemble(arg.title, <<P_A, P_A120>>, arg.url)

OutputLines ==
    (IF arg.title = <<>> THEN <<>> ELSE <<strip(arg.title)>>)
        \o Kept(AllParagraphs) \o <<strip(footer(arg.url))>>

LongKey(t) == text_len(normalize_text(t)) > 20

FullNormal(p) == strip(lower_text(remove_markup(collapse_whitespace(p))))

\* The first n characters of a text of at least n characters.
RECURSIVE FirstChars(_, _)
FirstChars(t, n) ==
    IF n = 0 THEN <<>>
    ELSE IF Head(t).n >= n THEN <<[c |-> Head(t).c, n |-> n]>>
    ELSE <<Head(t)>> \o FirstChars(Tail(t), n - Head(t).n)

\* Positions j < k of two distinct paragraphs whose normalized texts have at
\* least 100 characters and the same first 100 of them.
SamePrefix(j, k) ==
    /\ j < k
    /\ AllParagraphs[j] # AllParagraphs[k]
    /\ text_len(FullNormal(AllParagraphs[j])) >= 100
    /\ text_len(FullNormal(AllParagraphs[k])) >= 100
    /\ FirstChars(FullNormal(AllParagraphs[j]), 100) = FirstChars(FullNormal(AllParagraphs[k]), 100)

\* C26: two distinct paragraphs of a page whose normalized texts share their
\* first 100 characters have the same key; the output holds one paragraph
\* with that key, the first of the page that has it.
C26_PrefixCollision ==
    fn = "_html_to_markdown" =>
        \A j, k \in 1..Len(AllParagraphs) :
            SamePrefix(j, k) =>
                LET key == normalize_text(AllParagraphs[j])
                    out == split_paragraphs(res)
                    hits == {m \in 1..Len(out) : normalize_text(out[m]) = key}
                    first == CHOOSE f \in 1..Len(AllParagraphs) :
                                /\ normalize_text(AllParagraphs[f]) = key
                                /\ \A g \in 1..f - 1 : normalize_text(AllParagraphs[g]) # key
                IN  /\ normalize_text(AllParagraphs[k]) = key
                    /\ Cardinality(hits) = 1
                    /\ \A m \in hits : out[m] = AllParagraphs[first]

\* A paragraph of 100 a's and 5 b's and then one of 120 a's: the first alone
\* is in the output.
C26_Witness ==
    /\ fn = "_html_to_markdown"
    /\ arg.regions = <<<<P_A100B, P_A120>>>>
    /\ res = Assemble(arg.title, <<P_A100B>>, arg.url)

(***************************************************************************)
(* Properties of Scraper.scrape.                                           *)
(***************************************************************************)
Count(u, s) == Cardinality({k \in 1..Len(s) : s[k] = u})

\* The processing of the URL of a log entry ended in an error.
UrlErrored(e) ==
    \/ e.php = "raises"
    \/ e.html \in {"request_exception", "parse_error"}

\* C4: scrape runs to the end of the list whatever fails, and every input URL
\* handled so far was appended to exactly one of processed_urls and
\* failed_urls, so the two lengths add up to the number of input URLs.
C4_EveryUrlAccounted ==
    /\ i \in 1..Len(urls) + 1
    /\ Len(processed_urls) + Len(failed_urls) = i - 1
    /\ \A u \in SCRAPE_URLS :
         Count(u, processed_urls) + Count(u, failed_urls) = Count(u, SubSeq(urls, 1, i - 1))
    /\ (pc = "scrape" /\ i <= Len(urls)) => ENABLED NextScrape
    /\ pc = "scraped" =>
         /\ i = Len(urls) + 1
         /\ Len(processed_urls) + Len(failed_urls) = Len(urls)

\* scrape returned after one URL failed and a later one was processed.
C4_Witness ==
    /\ pc = "scraped"
    /\ Len(urls) = 2
    /\ Len(failed_urls) = 1
    /\ Len(processed_urls) = 1
    /\ log[1].recorded = "failed"

\* C5 (as claimed): a URL whose processing hit an error at any stage, the
\* transport and parse errors of the HTML path included, is in failed_urls and
\* was not appended to processed_urls.
C5_ErrorsAreFailed ==
    \A k \in 1..Len(log) :
        UrlErrored(log[k]) =>
            /\ log[k].recorded = "failed"
            /\ urls[k] \in Range(failed_urls)

\* C6 (as claimed): for a URL that is no document-redirect URL, whenever the
\* binary attempt gave no Document, HTML extraction was attempted.
C6_FallbackOnAnyFailure ==
    \A k \in 1..Len(log) :
        (~ContainsDocPhp(urls[k]) /\ log[k].pdf # "ok") => log[k].html # "none"

\* C7 (as claimed): the Documents correspond one-to-one to the processed URLs:
\* a URL is appended to processed_urls only with a Document for it.
C7_OneDocumentPerProcessedUrl ==
    /\ Len(documents) = Len(processed_urls)
    /\ \A k \in 1..Len(log) : log[k].recorded = "processed" => log[k].doc

\* C8 (as claimed): a page on which the extraction found no content region is
\* recorded in failed_urls, without a Document.
C8_NoContentIsFailed ==
    \A k \in 1..Len(log) :
        log[k].html = "no_content" =>
            /\ log[k].recorded = "failed"
            /\ urls[k] \in Range(failed_urls)
            /\ ~log[k].doc

\* The iterations of scrape that appended a Document, in order.
RECURSIVE DocIterations(_)
DocIterations(n) ==
    IF n = 0 THEN <<>>
    ELSE IF log[n].doc THEN Append(DocIterations(n - 1), n) ELSE DocIterations(n - 1)

\* C30: scrape appends at most one Document per input URL and never removes
\* or reorders Documents: the Documents are those of the iterations that
\* produced one, in the order of the input URLs, and an iteration that fails
\* leaves the Documents as they were.
C30_DocumentsAppendOnly ==
    /\ [](LET its == DocIterations(Len(log))
          IN  /\ Len(documents) = Len(its)
              /\ \A k \in 1..Len(its) :
                    documents[k].metadata.url \in {urls[its[k]], processed_url(urls[its[k]])})
    /\ [][/\ Len(documents') <= Len(documents) + 1
          /\ SubSeq(documents', 1, Len(documents)) = documents
          /\ (i' = i + 1 /\ Len(failed_urls') > Len(failed_urls)) => documents' = documents]_vars

\* The second URL failed after the first gave a Document.
C30_Witness ==
    /\ Len(log) = 2
    /\ log[1].doc
    /\ log[2].recorded = "failed"
    /\ Len(documents) = 1
    /\ documents[1].metadata.url = urls[1]

(***************************************************************************)
(* Properties of WebScraper.scrape.                                        *)
(***************************************************************************)
\* C27: every URL in the queue of WebScraper other than the base URL has the
\* authority of the base URL.
C27_QueueSameDomain ==
    pc = "WebScraper.scrape" =>
        \A k \in 1..Len(queue) :
            queue[k] # base_url => Netloc(queue[k]) = Netloc(base_url)

====
